---------------------------- MODULE Spec2Model ----------------------------
(***************************************************************************)
(* Model of the CID codec of sp-cid (src/src/cid.rs, src/src/error.rs).    *)
(*                                                                         *)
(* A Cid is the record [version, codec, hash]; hash is a Multihash, the    *)
(* record [code, size, digest].  Bytes are integers 0..255, a byte buffer  *)
(* is a sequence of bytes, a text is a sequence of one-character strings.  *)
(* Every fallible operation returns Ok(v), Err(e) or Panic (an unwrap or   *)
(* expect reached with a failing value).                                   *)
(*                                                                         *)
(* The collaborators cid.rs calls (unsigned_varint, bytecursor,            *)
(* sp_multihash, multibase) are modelled by what they compute.  The two    *)
(* files of the crate that are not part of the sources at hand, the        *)
(* version model and the crate root's varint_read_u64, are modelled from   *)
(* the specification's sections 4.1 and 6.                                 *)
(***************************************************************************)
EXTENDS Integers, Sequences, FiniteSets, TLC

VARIABLES
  S,      \* the digest size bound the Cid type is instantiated with
  held,   \* the Cid the caller holds (the last one constructed), or NoCid
  enc,    \* the last binary encoding made of held: [from, bytes], or NoEnc
  txt,    \* the last text rendering made of held: [from, base, text], or NoTxt
  op,     \* the operation called last
  arg,    \* its arguments
  res,    \* its outcome
  prev    \* for a gateway-prefixed parse: the parse of the bare text before it

vars == <<S, held, enc, txt, op, arg, res, prev>>

---------------------------------------------------------------------------
(* Bounds of the model.                                                    *)

\* number of distinct fill patterns of the generated digests
NumFills == 1
\* digest lengths 32 - LenSlack .. 32 + LenSlack are generated around 32
LenSlack == 1
\* raw input buffers carry 0 .. MaxTrailing bytes after a complete identifier
MaxTrailing == 1

---------------------------------------------------------------------------
(* Outcomes.                                                               *)

Ok(v) == [tag |-> "Ok", val |-> v]
Err(e) == [tag |-> "Err", err |-> e]
Panic == [tag |-> "Panic"]

IsOk(r) == r.tag = "Ok"
IsErr(r) == r.tag = "Err"

\* the variants of error.rs's Error that do not depend on the std feature
Error ==
  {"UnknownCodec", "InputTooShort", "ParsingError", "InvalidCidVersion",
   "InvalidCidV0Codec", "InvalidCidV0Multihash", "InvalidCidV0Base",
   "VarIntDecodeError"}

NoCid == [tag |-> "NoCid"]
NoEnc == [tag |-> "NoEnc"]
NoTxt == [tag |-> "NoTxt"]
NoPrev == [tag |-> "NoPrev"]

---------------------------------------------------------------------------
(* Program constants.                                                      *)

DAG_PB == 112
SHA2_256 == 18
IPFS_DELIMETER == <<"/", "i", "p", "f", "s", "/">>

\* the instantiations of Cid<S: Size> that are modelled: U16, U32, U64
SizeBounds == {16, 32, 64}

---------------------------------------------------------------------------
(* unsigned_varint and the byte cursor.                                    *)

RECURSIVE varint_encode(_)
\* unsigned_varint::encode::u64: little-endian base 128, high bit = "more"
varint_encode(n) ==
  IF n < 128 THEN <<n>> ELSE <<128 + (n % 128)>> \o varint_encode(n \div 128)

\* ByteCursor::write_all on a cursor positioned at the end of a Vec
write_all(w, bytes) == w \o bytes

\* ByteCursor::read_exact: n bytes from position pos (1-based), or failure
read_exact(buf, pos, n) ==
  IF pos + n - 1 > Len(buf)
  THEN [ok |-> FALSE]
  ELSE [ok |-> TRUE, val |-> SubSeq(buf, pos, pos + n - 1), pos |-> pos + n]

RECURSIVE varint_scan(_, _, _, _, _)
\* reads one byte at a time, at most 10, until one has the high bit clear
varint_scan(buf, pos, i, acc, mul) ==
  IF i > 10 \/ pos > Len(buf)
  THEN [ok |-> FALSE]
  ELSE LET b == buf[pos]
       IN IF b < 128
          THEN IF b = 0 /\ i > 1
               THEN [ok |-> FALSE]            \* an overlong encoding
               ELSE [ok |-> TRUE, val |-> acc + b * mul, pos |-> pos + 1]
          ELSE varint_scan(buf, pos + 1, i + 1, acc + (b - 128) * mul, mul * 128)

\* crate::varint_read_u64: a u64 from the cursor, failing on malformed or
\* truncated input
varint_read_u64(buf, pos) == varint_scan(buf, pos, 1, 0, 1)

---------------------------------------------------------------------------
(* sp_multihash::MultihashGeneric<S>.                                      *)

Multihash(code, digest) == [code |-> code, size |-> Len(digest), digest |-> digest]

\* Multihash::wrap: fails when the digest is longer than the size bound
Multihash_wrap(size, code, digest) ==
  IF Len(digest) > size THEN Err("InvalidSize") ELSE Ok(Multihash(code, digest))

\* Multihash::default: code 0, size 0
Multihash_default == Multihash(0, <<>>)

\* Multihash::write: varint(code), varint(size), the digest bytes
Multihash_write(mh, w) ==
  write_all(write_all(write_all(w, varint_encode(mh.code)), varint_encode(mh.size)),
            mh.digest)

\* Multihash::to_bytes
Multihash_to_bytes(mh) == Multihash_write(mh, <<>>)

\* Multihash::read: varint code, varint size (at most the bound), the digest
Multihash_read(size, buf, pos) ==
  LET code == varint_read_u64(buf, pos)
  IN IF ~code.ok THEN [ok |-> FALSE]
     ELSE LET len == varint_read_u64(buf, code.pos)
          IN IF ~len.ok \/ len.val > size \/ len.val > 255 THEN [ok |-> FALSE]
             ELSE LET d == read_exact(buf, len.pos, len.val)
                  IN IF ~d.ok THEN [ok |-> FALSE]
                     ELSE [ok |-> TRUE, val |-> Multihash(code.val, d.val), pos |-> d.pos]

---------------------------------------------------------------------------
(* The version model (spec section 4.1).                                   *)

\* Version::try_from(u64)
Version_try_from(n) ==
  IF n = 0 THEN Ok("V0") ELSE IF n = 1 THEN Ok("V1") ELSE Err("InvalidCidVersion")

\* u64::from(Version)
Version_into(v) == IF v = "V0" THEN 0 ELSE 1

\* Version::is_v0_str: the legacy length, starting with the legacy prefix
is_v0_str(text) == Len(text) = 46 /\ SubSeq(text, 1, 2) = <<"Q", "m">>


---------------------------------------------------------------------------
(* multibase: the bases the claims name.                                   *)

BASE58_BITCOIN ==
  <<"1", "2", "3", "4", "5", "6", "7", "8", "9", "A", "B", "C", "D", "E", "F", "G", "H",
    "J", "K", "L", "M", "N", "P", "Q", "R", "S", "T", "U", "V", "W", "X", "Y", "Z", "a",
    "b", "c", "d", "e", "f", "g", "h", "i", "j", "k", "m", "n", "o", "p", "q", "r", "s",
    "t", "u", "v", "w", "x", "y", "z">>

BASE32_LOWER ==
  <<"a", "b", "c", "d", "e", "f", "g", "h", "i", "j", "k", "l", "m", "n", "o", "p", "q",
    "r", "s", "t", "u", "v", "w", "x", "y", "z", "2", "3", "4", "5", "6", "7">>

BASE64 ==
  <<"A", "B", "C", "D", "E", "F", "G", "H", "I", "J", "K", "L", "M", "N", "O", "P", "Q",
    "R", "S", "T", "U", "V", "W", "X", "Y", "Z", "a", "b", "c", "d", "e", "f", "g", "h",
    "i", "j", "k", "l", "m", "n", "o", "p", "q", "r", "s", "t", "u", "v", "w", "x", "y",
    "z", "0", "1", "2", "3", "4", "5", "6", "7", "8", "9", "+", "/">>

\* multibase::Base, the variants modelled
Base == {"Base32Lower", "Base58Btc", "Base64"}

\* Base::code: the leading marker character
Base_code(base) ==
  CASE base = "Base32Lower" -> "b"
    [] base = "Base58Btc" -> "z"
    [] base = "Base64" -> "m"

InAlphabet(alphabet, c) == \E i \in 1..Len(alphabet) : alphabet[i] = c
\* the digit value (0-based) of a character of the alphabet
DigitOf(alphabet, c) == (CHOOSE i \in 1..Len(alphabet) : alphabet[i] = c) - 1

Reverse(s) == [i \in 1..Len(s) |-> s[Len(s) + 1 - i]]

\* how many leading elements of s equal x
LeadingCount(s, x) ==
  CHOOSE k \in 0..Len(s) :
    /\ \A i \in 1..k : s[i] = x
    /\ (k < Len(s) => s[k + 1] # x)

RECURSIVE Digits(_, _)
\* the little-endian digits of n in the base (none for 0)
Digits(n, base) == IF n = 0 THEN <<>> ELSE <<n % base>> \o Digits(n \div base, base)

RECURSIVE MulAddRange(_, _, _, _, _, _)
\* digits[lo..hi] (little-endian, base `base`) times mul plus carry: the
\* resulting digits of those positions and the carry out of them
MulAddRange(digits, lo, hi, mul, base, carry) ==
  IF lo > hi THEN [out |-> <<>>, carry |-> carry]
  ELSE IF lo = hi
  THEN LET v == digits[lo] * mul + carry
       IN [out |-> <<v % base>>, carry |-> v \div base]
  ELSE LET mid == (lo + hi) \div 2
           low == MulAddRange(digits, lo, mid, mul, base, carry)
           high == MulAddRange(digits, mid + 1, hi, mul, base, low.carry)
       IN [out |-> low.out \o high.out, carry |-> high.carry]

\* digits (little-endian, base `base`) times mul plus carry, in the same base
MulAdd(digits, mul, base, carry) ==
  LET r == MulAddRange(digits, 1, Len(digits), mul, base, carry)
  IN r.out \o Digits(r.carry, base)

RECURSIVE RebaseRange(_, _, _, _, _, _)
\* acc (little-endian digits of base `to`) after the digits ds[lo..hi] of
\* base `from` have been shifted in, most significant first
RebaseRange(ds, lo, hi, from, to, acc) ==
  IF lo > hi THEN acc
  ELSE IF lo = hi THEN MulAdd(acc, from, to, ds[lo])
  ELSE LET mid == (lo + hi) \div 2
           low == RebaseRange(ds, lo, mid, from, to, acc)
       IN IF Len(low) >= 0
          THEN RebaseRange(ds, mid + 1, hi, from, to, low)
          ELSE low

\* the big-endian digit string ds of base `from`, as little-endian digits of
\* base `to`
Rebase(ds, from, to, acc) == RebaseRange(ds, 1, Len(ds), from, to, acc)

\* base_x::encode with the bitcoin alphabet: the bytes as one big-endian
\* number in base 58, each leading zero byte rendered as the digit zero
Base58Btc_encode(bytes) ==
  LET z == LeadingCount(bytes, 0)
      ds == Reverse(Rebase(SubSeq(bytes, z + 1, Len(bytes)), 256, 58, <<>>))
  IN [i \in 1..z |-> BASE58_BITCOIN[1]] \o [i \in 1..Len(ds) |-> BASE58_BITCOIN[ds[i] + 1]]

\* base_x::decode with the bitcoin alphabet
Base58Btc_decode(text) ==
  IF \E i \in 1..Len(text) : ~InAlphabet(BASE58_BITCOIN, text[i])
  THEN Err("InvalidBaseString")
  ELSE LET z == LeadingCount(text, BASE58_BITCOIN[1])
           ds == [i \in 1..(Len(text) - z) |-> DigitOf(BASE58_BITCOIN, text[z + i])]
       IN Ok([i \in 1..z |-> 0] \o Reverse(Rebase(ds, 58, 256, <<>>)))

\* data_encoding without padding, w bits per character, most significant
\* bit first: character k holds bits (k-1)*w .. k*w-1 of the byte string
Bits_encode(bytes, w, alphabet) ==
  LET n == Len(bytes)
      At(i) == IF i <= n THEN bytes[i] ELSE 0
      Group(k) == LET o == (k - 1) * w
                      i == (o \div 8) + 1
                      r == o % 8
                  IN (((At(i) * 256 + At(i + 1)) \div (2 ^ (16 - r - w))) % (2 ^ w))
  IN [k \in 1..((8 * n + w - 1) \div w) |-> alphabet[Group(k) + 1]]

\* the inverse: fails on a character outside the alphabet, on a length no
\* byte string encodes to, and on trailing bits that are not zero
Bits_decode(text, w, alphabet) ==
  LET m == Len(text)
      n == (m * w) \div 8
      V(k) == IF k <= m THEN DigitOf(alphabet, text[k]) ELSE 0
      Byte(j) == LET o == (j - 1) * 8
                     k == (o \div w) + 1
                     r == o % w
                 IN ((V(k) * (2 ^ (2 * w)) + V(k + 1) * (2 ^ w) + V(k + 2))
                       \div (2 ^ (3 * w - r - 8))) % 256
      spare == m * w - 8 * n
  IN IF \E i \in 1..m : ~InAlphabet(alphabet, text[i]) THEN Err("InvalidBaseString")
     ELSE IF spare >= w THEN Err("InvalidBaseString")
     ELSE IF m > 0 /\ V(m) % (2 ^ spare) # 0 THEN Err("InvalidBaseString")
     ELSE Ok([j \in 1..n |-> Byte(j)])

\* Base::encode: the text of the bytes in the base, without the marker
Base_encode(base, bytes) ==
  CASE base = "Base32Lower" -> Bits_encode(bytes, 5, BASE32_LOWER)
    [] base = "Base58Btc" -> Base58Btc_encode(bytes)
    [] base = "Base64" -> Bits_encode(bytes, 6, BASE64)

\* Base::decode
Base_decode(base, text) ==
  CASE base = "Base32Lower" -> Bits_decode(text, 5, BASE32_LOWER)
    [] base = "Base58Btc" -> Base58Btc_decode(text)
    [] base = "Base64" -> Bits_decode(text, 6, BASE64)

\* multibase::encode: the marker of the base, then the text in that base
base_encode(base, bytes) == <<Base_code(base)>> \o Base_encode(base, bytes)

\* multibase::decode: the base is read from the leading marker
multibase_decode(text) ==
  IF text = <<>> THEN Err("InvalidBaseString")
  ELSE IF \A b \in Base : Base_code(b) # Head(text) THEN Err("UnknownBase")
  ELSE LET b == CHOOSE x \in Base : Base_code(x) = Head(text)
           d == Base_decode(b, Tail(text))
       IN IF IsOk(d) THEN Ok(<<b, d.val>>) ELSE d

---------------------------------------------------------------------------
(* Cid<S>: construction.                                                   *)

Cid(version, codec, hash) == [version |-> version, codec |-> codec, hash |-> hash]

\* new_v0 without its check of the hash-function code
new_v0_unchecked(hash) == Ok(Cid("V0", DAG_PB, hash))

\* Cid::new_v0
new_v0(hash) ==
  IF hash.code # SHA2_256
  THEN Err("InvalidCidV0Multihash")
  ELSE Ok(Cid("V0", DAG_PB, hash))

\* Cid::new_v1
new_v1(codec, hash) == Cid("V1", codec, hash)

\* new without its check of the codec of a V0 identifier
new_codec_unchecked(version, codec, hash) ==
  IF version = "V0" THEN new_v0(hash) ELSE Ok(new_v1(codec, hash))

\* Cid::new
new(version, codec, hash) ==
  IF version = "V0"
  THEN IF codec # DAG_PB
       THEN Err("InvalidCidV0Codec")
       ELSE new_v0(hash)
  ELSE Ok(new_v1(codec, hash))

\* Default for Cid<S>
default == Cid("V1", 0, Multihash_default)

---------------------------------------------------------------------------
(* Cid<S>: binary decode and encode.                                       *)

\* Cid::read_bytes on a cursor at the start of buf; size is S
read_bytes(size, buf) ==
  LET version == varint_read_u64(buf, 1)
  IN IF ~version.ok THEN Err("VarIntDecodeError")
     ELSE
     LET codec == varint_read_u64(buf, version.pos)
     IN IF ~codec.ok THEN Err("VarIntDecodeError")
        ELSE IF <<version.val, codec.val>> = <<18, 32>>
        THEN LET digest == read_exact(buf, codec.pos, 32)
             IN IF ~digest.ok THEN Err("VarIntDecodeError")
                ELSE LET mh == Multihash_wrap(size, version.val, digest.val)
                     IN IF ~IsOk(mh) THEN Panic     \* expect("Digest is always 32 bytes.")
                        ELSE new_v0(mh.val)
        ELSE LET ver == Version_try_from(version.val)
             IN IF ~IsOk(ver) THEN Err("VarIntDecodeError")
                ELSE LET mh == Multihash_read(size, buf, codec.pos)
                     IN IF ~mh.ok THEN Err("VarIntDecodeError")
                        ELSE new(ver.val, codec.val, mh.val)

\* write_bytes_v1 writing the codec before the version
write_bytes_v1_swapped(self, w) ==
  LET version == varint_encode(Version_into(self.version))
      codec == varint_encode(self.codec)
  IN Ok(Multihash_write(self.hash, write_all(write_all(w, codec), version)))

\* Cid::write_bytes_v1: the buffer after the three writes
write_bytes_v1(self, w) ==
  LET version == varint_encode(Version_into(self.version))
      codec == varint_encode(self.codec)
  IN Ok(Multihash_write(self.hash, write_all(write_all(w, version), codec)))

\* Cid::write_bytes
write_bytes(self, w) ==
  IF self.version = "V0"
  THEN Ok(Multihash_write(self.hash, w))
  ELSE LET r == write_bytes_v1(self, w)
       IN IF IsOk(r) THEN r ELSE Err("VarIntDecodeError")

\* Cid::to_bytes: write_bytes into a fresh buffer, unwrapped
to_bytes(self) ==
  LET r == write_bytes(self, <<>>)
  IN IF IsOk(r) THEN r ELSE Panic

\* TryFrom<&[u8]> (and TryFrom<Vec<u8>>) for Cid
try_from_bytes(size, bytes) == read_bytes(size, bytes)

---------------------------------------------------------------------------
(* Cid<S>: text encode and decode.                                         *)

\* Cid::to_string_v0
to_string_v0(self) == Base_encode("Base58Btc", Multihash_to_bytes(self.hash))

\* Cid::to_string_v1
to_string_v1(self) == base_encode("Base32Lower", to_bytes(self).val)

\* Cid::to_string_of_base
to_string_of_base(self, base) ==
  IF self.version = "V0"
  THEN IF base = "Base58Btc"
       THEN Ok(to_string_v0(self))
       ELSE Err("InvalidCidV0Base")
  ELSE Ok(base_encode(base, to_bytes(self).val))

\* fmt::Display for Cid
fmt(self) == IF self.version = "V0" THEN to_string_v0(self) ELSE to_string_v1(self)

\* str::find: the first position (1-based) at which pat occurs, 0 if none
find(text, pat) ==
  LET hits == {i \in 1..(Len(text) - Len(pat) + 1) :
                 SubSeq(text, i, i + Len(pat) - 1) = pat}
  IN IF hits = {} THEN 0 ELSE CHOOSE i \in hits : \A j \in hits : i <= j

\* TryFrom<&str> (and TryFrom<String>, FromStr) for Cid; size is S
try_from_str(size, cid_str) ==
  LET index == find(cid_str, IPFS_DELIMETER)
      hash == IF index # 0
              THEN SubSeq(cid_str, index + Len(IPFS_DELIMETER), Len(cid_str))
              ELSE cid_str
  IN IF Len(hash) < 2 THEN Err("InputTooShort")
     ELSE IF is_v0_str(hash)
     THEN LET d == Base_decode("Base58Btc", hash)
          IN IF IsOk(d) THEN try_from_bytes(size, d.val) ELSE Err("ParsingError")
     ELSE LET d == multibase_decode(hash)
          IN IF IsOk(d) THEN try_from_bytes(size, d.val[2]) ELSE Err("VarIntDecodeError")

---------------------------------------------------------------------------
(* The inputs the operations are called with.                              *)

\* the fill bytes of the generated digests and buffers
FillBytes == {(171 * k) % 256 : k \in 1..NumFills}
Fill(n, b) == [i \in 1..n |-> b]

\* sha2-256("foo"), the digest of the documentation test of to_string_of_base
FooDigest ==
  <<44, 38, 180, 107, 104, 255, 198, 143, 249, 155, 69, 60, 29, 48, 65, 52, 19, 66, 45,
    112, 100, 131, 191, 160, 249, 138, 94, 136, 98, 102, 231, 174>>

\* a digest whose bytes 3..7 are "/ipfs/" in the base64 text of a V1 Cid
SlashDigest == <<7, 7, 254, 42, 95, 179, 240, 0>>

DigestLens == {8, 20, 64} \cup ((32 - LenSlack)..(32 + LenSlack))

Digests == {Fill(n, b) : n \in DigestLens, b \in FillBytes} \cup {FooDigest, SlashDigest}

\* hash-function codes: sha2-256, sha2-512
HashCodes == {SHA2_256, 19}

\* the Multihash<S> values the constructors are called with
Hashes(size) ==
  {Multihash(c, d) : c \in HashCodes, d \in {x \in Digests : Len(x) <= size}}

\* content-type codes: dag-pb, raw, dag-json (a two-byte varint)
Codecs == {DAG_PB, 85, 297}

Versions == {"V0", "V1"}

\* the first bytes of the raw input buffers: empty, a lone or truncated
\* varint, the legacy pair, explicit versions 0, 1, 2 and 5
Heads ==
  {<<>>, <<18>>, <<146>>, <<18, 32>>, <<0, 112, 18, 32>>, <<0, 85, 18, 32>>,
   <<0, 112, 19, 32>>, <<1, 85, 18, 32>>, <<2, 112, 18, 32>>, <<5, 112, 18, 32>>}

BodyLens == {0, 31} \cup (32..(32 + MaxTrailing))

RawBuffers == {h \o Fill(n, b) : h \in Heads, n \in BodyLens, b \in FillBytes}

\* raw input texts: too short, a bare delimiter, not base58, not base32
RawTexts ==
  {<<>>, <<"Q">>, IPFS_DELIMETER, IPFS_DELIMETER \o <<"Q">>,
   <<"Q", "m">> \o Fill(44, "0"), <<"Q", "m">> \o Fill(44, "1"),
   <<"b", "1", "1">>, <<"A", "A">>}

\* what a caller may put before a text identifier
GatewayPrefixes == {IPFS_DELIMETER, <<"g", "w">> \o IPFS_DELIMETER}

---------------------------------------------------------------------------
(* The state machine: one action per operation of the public surface.      *)

Init ==
  /\ S \in SizeBounds
  /\ held = NoCid
  /\ enc = NoEnc
  /\ txt = NoTxt
  /\ op = "none"
  /\ arg = [none |-> TRUE]
  /\ res = [tag |-> "None"]
  /\ prev = NoPrev

\* the operations are pure, so a behaviour is one call sequence on one value:
\* a constructor or a decode of raw input comes first, and what it returns is
\* the Cid held from then on
Fresh(r) ==
  /\ op = "none"
  /\ held' = IF IsOk(r) THEN r.val ELSE NoCid
  /\ enc' = NoEnc
  /\ txt' = NoTxt
  /\ prev' = NoPrev
  /\ res' = r
  /\ UNCHANGED S

NewV0 ==
  \E h \in Hashes(S) :
    /\ op' = "new_v0"
    /\ arg' = [hash |-> h]
    /\ Fresh(new_v0(h))

NewV1 ==
  \E c \in Codecs, h \in Hashes(S) :
    /\ op' = "new_v1"
    /\ arg' = [codec |-> c, hash |-> h]
    /\ Fresh(Ok(new_v1(c, h)))

New ==
  \E v \in Versions, c \in Codecs, h \in Hashes(S) :
    /\ op' = "new"
    /\ arg' = [version |-> v, codec |-> c, hash |-> h]
    /\ Fresh(new(v, c, h))

Default ==
  /\ op' = "default"
  /\ arg' = [none |-> TRUE]
  /\ Fresh(Ok(default))

\* read_bytes / try_from(&[u8]) of a raw input buffer
ReadBytes ==
  \E b \in RawBuffers, f \in {"read_bytes", "try_from_bytes"} :
    /\ op' = f
    /\ arg' = [bytes |-> b]
    /\ Fresh(IF f = "read_bytes" THEN read_bytes(S, b) ELSE try_from_bytes(S, b))

\* try_from(&str) of a raw input text
TryFromStr ==
  \E t \in RawTexts :
    /\ op' = "try_from_str"
    /\ arg' = [text |-> t]
    /\ Fresh(try_from_str(S, t))

\* held.to_bytes()
ToBytes ==
  /\ held # NoCid
  /\ op' = "to_bytes"
  /\ arg' = [cid |-> held]
  /\ res' = to_bytes(held)
  /\ enc' = IF IsOk(res') THEN [from |-> held, bytes |-> res'.val] ELSE NoEnc
  /\ txt' = NoTxt
  /\ prev' = NoPrev
  /\ UNCHANGED <<S, held>>

\* read_bytes / try_from(&[u8]) of the bytes to_bytes returned
ReadEncoded ==
  /\ enc # NoEnc
  /\ \E f \in {"read_bytes", "try_from_bytes"} :
       /\ op' = f
       /\ res' = IF f = "read_bytes" THEN read_bytes(S, enc.bytes)
                                     ELSE try_from_bytes(S, enc.bytes)
  /\ arg' = [bytes |-> enc.bytes]
  /\ prev' = NoPrev
  /\ UNCHANGED <<S, held, enc, txt>>

\* held.to_string()
Display ==
  /\ held # NoCid
  /\ op' = "to_string"
  /\ arg' = [cid |-> held]
  /\ res' = Ok(fmt(held))
  /\ txt' = [from |-> held, base |-> "Display", text |-> res'.val]
  /\ enc' = NoEnc
  /\ prev' = NoPrev
  /\ UNCHANGED <<S, held>>

\* held.to_string_of_base(base)
ToStringOfBase ==
  /\ held # NoCid
  /\ \E base \in Base :
       /\ arg' = [cid |-> held, base |-> base]
       /\ res' = to_string_of_base(held, base)
       /\ txt' = IF IsOk(res')
                 THEN [from |-> held, base |-> base, text |-> res'.val]
                 ELSE NoTxt
  /\ op' = "to_string_of_base"
  /\ enc' = NoEnc
  /\ prev' = NoPrev
  /\ UNCHANGED <<S, held>>

\* try_from(&str) of the text the rendering returned
ParseRendered ==
  /\ txt # NoTxt
  /\ op' = "try_from_str"
  /\ arg' = [text |-> txt.text]
  /\ res' = try_from_str(S, txt.text)
  /\ prev' = NoPrev
  /\ UNCHANGED <<S, held, enc, txt>>

\* try_from(&str) of that text behind a gateway prefix, right after the
\* parse of the bare text
ParseGateway ==
  /\ txt # NoTxt
  /\ op = "try_from_str"
  /\ prev = NoPrev
  /\ \E g \in GatewayPrefixes :
       /\ arg' = [text |-> g \o txt.text]
       /\ res' = try_from_str(S, g \o txt.text)
  /\ op' = "try_from_str"
  /\ prev' = [text |-> arg.text, res |-> res]
  /\ UNCHANGED <<S, held, enc, txt>>

Next ==
  \/ NewV0
  \/ NewV1
  \/ New
  \/ Default
  \/ ReadBytes
  \/ TryFromStr
  \/ ToBytes
  \/ ReadEncoded
  \/ Display
  \/ ToStringOfBase
  \/ ParseRendered
  \/ ParseGateway

Spec == Init /\ [][Next]_vars

---------------------------------------------------------------------------
(* The properties.                                                         *)

\* the operations that decode a byte buffer
IsBinaryDecode == op \in {"read_bytes", "try_from_bytes"}

\* the operations that return a Cid
ReturnsCid ==
  op \in {"new_v0", "new_v1", "new", "default", "read_bytes", "try_from_bytes",
          "try_from_str"}

\* every Cid value of the state
CidsInState ==
  (IF held # NoCid THEN {held} ELSE {})
    \cup (IF ReturnsCid /\ IsOk(res) THEN {res.val} ELSE {})
    \cup (IF enc # NoEnc THEN {enc.from} ELSE {})
    \cup (IF txt # NoTxt THEN {txt.from} ELSE {})

\* C1: binary round trip. Decoding the bytes to_bytes returned for a Cid
\* succeeds and returns that Cid.
BinaryRoundTrip ==
  (IsBinaryDecode /\ enc # NoEnc /\ arg.bytes = enc.bytes) => res = Ok(enc.from)

\* C2: text round trip. Parsing the default text rendering of a Cid succeeds
\* and returns that Cid.
TextRoundTrip ==
  (op = "try_from_str" /\ txt # NoTxt /\ txt.base = "Display" /\ arg.text = txt.text)
    => res = Ok(txt.from)

\* C3: V0 structural invariant. Every Cid of version V0 that exists, however
\* it was constructed or decoded, has codec 0x70 and a hash of code 0x12.
V0Invariant ==
  \A c \in CidsInState :
    c.version = "V0" => (c.codec = DAG_PB /\ c.hash.code = SHA2_256)

\* a text was parsed into a V0 Cid
V0InvariantWitness ==
  /\ op = "try_from_str"
  /\ IsOk(res)
  /\ res.val.version = "V0"
  /\ held.version = "V0"

\* C4 as stated: new(V0, codec, digest) with codec other than 0x70 fails with
\* InvalidCidV0Codec, and every V0 construction (new with V0, or new_v0) with
\* a hash code other than 0x12 fails with InvalidCidV0Multihash.
V0ConstructionErrorsAsStated ==
  /\ (op = "new" /\ arg.version = "V0" /\ arg.codec # DAG_PB)
       => res = Err("InvalidCidV0Codec")
  /\ ((op = "new_v0" \/ (op = "new" /\ arg.version = "V0")) /\ arg.hash.code # SHA2_256)
       => res = Err("InvalidCidV0Multihash")

\* C4 as amended: new(V0, codec, digest) with codec other than 0x70 fails with
\* InvalidCidV0Codec whatever the digest; new_v0, and new(V0, 0x70, digest),
\* with a hash code other than 0x12 fail with InvalidCidV0Multihash; no Cid
\* is returned in either case.
V0ConstructionErrors ==
  /\ (op = "new" /\ arg.version = "V0" /\ arg.codec # DAG_PB)
       => (res = Err("InvalidCidV0Codec") /\ held = NoCid)
  /\ ((op = "new_v0" \/ (op = "new" /\ arg.version = "V0" /\ arg.codec = DAG_PB))
        /\ arg.hash.code # SHA2_256)
       => (res = Err("InvalidCidV0Multihash") /\ held = NoCid)

\* new was called for V0 with a wrong codec and a wrong hash code
V0ConstructionErrorsWitness ==
  /\ op = "new"
  /\ arg.version = "V0"
  /\ arg.codec # DAG_PB
  /\ arg.hash.code # SHA2_256
  /\ IsErr(res)

\* C5: legacy binary detection precedence. A buffer of 0x12, 0x20 and exactly
\* 32 more bytes decodes to the V0 Cid of codec 0x70 whose hash has code 0x12
\* and those 32 bytes as digest.
LegacyPrecedence ==
  (IsBinaryDecode /\ Len(arg.bytes) = 34 /\ SubSeq(arg.bytes, 1, 2) = <<18, 32>>)
    => res = Ok(Cid("V0", DAG_PB, Multihash(SHA2_256, SubSeq(arg.bytes, 3, 34))))

\* C6: V0 binary shape. to_bytes of a V0 Cid is 34 bytes: 0x12, 0x20 and the
\* 32 digest bytes.
V0BinaryShape ==
  (op = "to_bytes" /\ arg.cid.version = "V0")
    => /\ IsOk(res)
       /\ Len(res.val) = 34
       /\ res.val = <<18, 32>> \o arg.cid.hash.digest

\* the bytes of a V1 Cid as the claim lays them out
V1Layout(c) ==
  varint_encode(1) \o varint_encode(c.codec) \o varint_encode(c.hash.code)
    \o varint_encode(c.hash.size) \o c.hash.digest

\* the text of the documentation test of to_string_of_base
DocTestText ==
  <<"m", "A", "V", "U", "S", "I", "C", "w", "m", "t", "G", "t", "o", "/", "8", "a", "P",
    "+", "Z", "t", "F", "P", "B", "0", "w", "Q", "T", "Q", "T", "Q", "i", "1", "w", "Z",
    "I", "O", "/", "o", "P", "m", "K", "X", "o", "h", "i", "Z", "u", "e", "u">>

\* the call of the documentation test
IsDocTest ==
  /\ op = "to_string_of_base"
  /\ arg = [cid |-> new_v1(85, Multihash(SHA2_256, FooDigest)), base |-> "Base64"]

\* C7: V1 binary layout. to_bytes of a V1 Cid is varint(1), varint(codec) and
\* the digest container's bytes, in that order and nothing else;
\* to_string_of_base is the multibase text of exactly those bytes, and for
\* codec 0x55 with sha2-256("foo") in base64 it is the documented text.
V1BinaryLayout ==
  /\ (op = "to_bytes" /\ arg.cid.version = "V1") => res = Ok(V1Layout(arg.cid))
  /\ (op = "to_string_of_base" /\ arg.cid.version = "V1")
       => /\ IsOk(res)
          /\ Head(res.val) = Base_code(arg.base)
          /\ Base_decode(arg.base, Tail(res.val)) = Ok(V1Layout(arg.cid))
  /\ IsDocTest => res = Ok(DocTestText)

\* the documentation test ran and returned a text
V1BinaryLayoutWitness == IsDocTest /\ IsOk(res) /\ Len(res.val) = 49

\* C8: invalid version classification. A buffer whose first two varints are
\* not the legacy pair and whose first varint is neither 0 nor 1 fails to
\* decode with InvalidCidVersion.
InvalidVersionClassified ==
  (/\ IsBinaryDecode
   /\ varint_read_u64(arg.bytes, 1).ok
   /\ varint_read_u64(arg.bytes, varint_read_u64(arg.bytes, 1).pos).ok
   /\ varint_read_u64(arg.bytes, 1).val \notin {0, 1}
   /\ <<varint_read_u64(arg.bytes, 1).val,
        varint_read_u64(arg.bytes, varint_read_u64(arg.bytes, 1).pos).val>> # <<18, 32>>)
    => res = Err("InvalidCidVersion")

\* C9: gateway-prefix tolerance. Parsing a text identifier behind a prefix
\* ending in "/ipfs/" returns what parsing the bare identifier returned.
GatewayTolerance ==
  (op = "try_from_str" /\ prev # NoPrev) => res = prev.res

\* C10: decoding never panics. For every buffer and every size bound,
\* read_bytes returns Ok or an error of the taxonomy.
DecodeNeverPanics ==
  IsBinaryDecode => (IsOk(res) \/ (IsErr(res) /\ res.err \in Error))

============================================================================
